---- MODULE Spec2Model ----
(***************************************************************************)
(* A model of the jup-mcp server: the stdio protocol loop                  *)
(* (McpServer::run_stdio), the dispatcher (McpServer::handle_request,      *)
(* handle_tools_call) and the three tools (get_quote, execute_swap,        *)
(* get_token_balance) with the aggregator and the chain endpoint as        *)
(* nondeterministic collaborators.                                         *)
(***************************************************************************)
EXTENDS Integers, Sequences, FiniteSets, TLC

\* Bound on the number of lines read from stdin in one run.
MaxLines == 2

(***************************************************************************)
(* JSON values and Rust Option.  An Option is a sequence of length <= 1:   *)
(* None is <<>>, Some(v) is <<v>>.  A JSON member that is absent (or null) *)
(* is None.  JSON values are tagged records.                               *)
(***************************************************************************)
None == <<>>
Some(v) == <<v>>
IsSome(o) == Len(o) = 1
Unwrap(o) == o[1]
UnwrapOr(o, d) == IF IsSome(o) THEN o[1] ELSE d

JStr(s) == [t |-> "str", s |-> s]
JNum(n) == [t |-> "num", n |-> n]
JBool(b) == [t |-> "bool", b |-> b]
IsJStr(o) == IsSome(o) /\ o[1].t = "str"

\* Chain addresses (base58 strings).  The first three decode to 32 bytes.
WalletAddr == "Wa11etPubkey"
ValidAddrs == {"So11111111111111111111111111111111111111112",
               "EPjFWdd5AufqSSqeM2qN1xzybapC8G4wEGGkZwyTDt1v",
               WalletAddr}
BadAddr == "not-a-pubkey"

Networks == {"MainnetBeta", "Testnet", "Devnet"}
\* private_key strings: a base58 64-byte keypair, a string that is not
\* base58, a base58 string of the wrong length.
PrivateKeys == {"key_ok", "key_not_base58", "key_wrong_len"}
Configs == [network : Networks, private_key : PrivateKeys]

(***************************************************************************)
(* error.rs: JupiterMcpError and its Display text.  An error is a kind and *)
(* the formatted detail (a sequence of text pieces); its text is the       *)
(* kind's prefix followed by the detail.                                   *)
(***************************************************************************)
ErrorKinds == {"SolanaClient", "SolanaSdk", "Http", "Serialization",
               "Base58Decode", "Io", "Environment", "JupiterApi",
               "InvalidInput", "McpProtocol"}
JupiterMcpError(kind, detail) == [kind |-> kind, detail |-> detail]
DisplayPrefix(kind) ==
    CASE kind = "SolanaClient"  -> "Solana client error: "
      [] kind = "SolanaSdk"     -> "Solana SDK error: "
      [] kind = "Http"          -> "HTTP request error: "
      [] kind = "Serialization" -> "Serialization error: "
      [] kind = "Base58Decode"  -> "Base58 decode error: "
      [] kind = "Io"            -> "IO error: "
      [] kind = "Environment"   -> "Environment error: "
      [] kind = "JupiterApi"    -> "Jupiter API error: "
      [] kind = "InvalidInput"  -> "Invalid input: "
      [] kind = "McpProtocol"   -> "MCP protocol error: "
\* Display for JupiterMcpError (thiserror #[error(...)]): e.to_string().
to_string(e) == <<DisplayPrefix(e.kind)>> \o e.detail

\* Result<T>: Ok(v) or Err(e).
Ok(v) == [ok |-> TRUE, v |-> v]
Err(e) == [ok |-> FALSE, e |-> e]

(***************************************************************************)
(* mcp.rs: the protocol data shapes.                                       *)
(***************************************************************************)
McpRequest(jsonrpc, id, method, params) ==
    [jsonrpc |-> jsonrpc, id |-> id, method |-> method, params |-> params]

McpResponseSuccess(id, result) ==
    [jsonrpc |-> "2.0", id |-> id, result |-> Some(result), error |-> None]

\* Fault injection for C26: an error response also carries a result.
McpResponseError_WithResult(id, code, message) ==
    [jsonrpc |-> "2.0", id |-> id, result |-> Some("null"),
     error |-> Some([code |-> code, message |-> message, data |-> None])]

McpResponseError(id, code, message) ==
    [jsonrpc |-> "2.0", id |-> id, result |-> None,
     error |-> Some([code |-> code, message |-> message, data |-> None])]

ToolResponseText(text) ==
    [content |-> <<[content_type |-> "text", text |-> text]>>, is_error |-> None]

\* The id run_stdio writes when the line did not parse.
SentinelId == "unknown"

\* JSON-RPC error codes used by the server.
ParseErrorCode == -32700
MethodNotFoundCode == -32601
InvalidParamsCode == -32602
InternalErrorCode == -32603

(***************************************************************************)
(* Text helpers.  Strings whose content is parsed (amounts) are sequences  *)
(* of one-character strings.                                               *)
(***************************************************************************)
DigitChars == <<"0", "1", "2", "3", "4", "5", "6", "7", "8", "9">>
IsDigit(c) == \E i \in 1..10 : DigitChars[i] = c
DigitVal(c) == (CHOOSE i \in 1..10 : DigitChars[i] = c) - 1
U64MaxDigits == <<"1","8","4","4","6","7","4","4","0","7","3","7","0","9","5","5","1","6","1","5">>

RECURSIVE StripZeros(_)
StripZeros(s) == IF Len(s) > 1 /\ s[1] = "0" THEN StripZeros(Tail(s)) ELSE s

\* a <= b for digit strings of equal length
RECURSIVE DigitsLeq(_, _)
DigitsLeq(a, b) ==
    IF Len(a) = 0 THEN TRUE
    ELSE IF DigitVal(a[1]) < DigitVal(b[1]) THEN TRUE
    ELSE IF DigitVal(a[1]) > DigitVal(b[1]) THEN FALSE
    ELSE DigitsLeq(Tail(a), Tail(b))

\* str::parse::<u64>() succeeds: an optional leading "+", then one or more
\* decimal digits, the value at most 2^64 - 1.  A leading "-" is an invalid
\* digit for an unsigned type.
ParseU64Ok(s) ==
    /\ Len(s) > 0
    /\ LET body == IF s[1] = "+" THEN Tail(s) ELSE s
           sig == StripZeros(body)
       IN /\ Len(body) > 0
          /\ \A i \in 1..Len(body) : IsDigit(body[i])
          /\ \/ Len(sig) < Len(U64MaxDigits)
             \/ Len(sig) = Len(U64MaxDigits) /\ DigitsLeq(sig, U64MaxDigits)

\* u16::to_string(): the decimal digits, no sign, no leading zeros.
RECURSIVE NatToString(_)
NatToString(n) ==
    IF n < 10 THEN <<DigitChars[n + 1]>>
    ELSE NatToString(n \div 10) \o <<DigitChars[(n % 10) + 1]>>

(***************************************************************************)
(* utils.rs                                                                *)
(***************************************************************************)
\* parse_pubkey: Pubkey::from_str, errors mapped to InvalidInput.
parse_pubkey(s) ==
    IF s \in ValidAddrs THEN Ok(s)
    ELSE Err(JupiterMcpError("InvalidInput", <<"Invalid public key '", s, "': ", "decode">>))

\* load_wallet: bs58-decode config.private_key, then Keypair::from_bytes.
\* The keypair is modelled by its public address.
load_wallet(config) ==
    CASE config.private_key = "key_not_base58" ->
            Err(JupiterMcpError("Base58Decode", <<"invalid character">>))
      [] config.private_key = "key_wrong_len" ->
            Err(JupiterMcpError("SolanaSdk", <<"Invalid private key format: ", "bad length">>))
      [] OTHER -> Ok([pubkey |-> WalletAddr])

\* SolanaNetwork::cluster_param
cluster_param(network) ==
    CASE network = "MainnetBeta" -> None
      [] network = "Testnet" -> Some("testnet")
      [] network = "Devnet" -> Some("devnet")

\* get_explorer_url
get_explorer_url(signature, config) ==
    LET base_url == "https://explorer.solana.com/tx"
        cluster == cluster_param(config.network)
    IN IF IsSome(cluster) THEN <<base_url, "?cluster=", Unwrap(cluster)>>
       ELSE <<base_url, "/", signature>>

(***************************************************************************)
(* Input lines.  A line read from stdin is blank (empty after trim), not   *)
(* JSON at all, or a JSON object whose members are given as Options.       *)
(***************************************************************************)
BlankLine == [raw |-> "blank"]
GarbageLine == [raw |-> "garbage"]
JsonLine(jsonrpc, id, method, params) ==
    [raw |-> "json", jsonrpc |-> jsonrpc, id |-> id, method |-> method,
     params |-> params]

\* Tool-call arguments: a JSON object with every member the three tools
\* look at (serde ignores members a struct does not name).
EmptyArgs ==
    [t |-> "obj", inputMint |-> None, outputMint |-> None, amount |-> None,
     taker |-> None, swapMode |-> None, slippageBps |-> None,
     quoteResponse |-> None, userPublicKey |-> None,
     wrapAndUnwrapSol |-> None, walletAddress |-> None, tokenMint |-> None]

\* A quote as a JSON object: its named members (one value "Q1" stands for
\* them), whether it has members QuoteResponse does not declare, and whether
\* it has the shape QuoteResponse needs.
QuoteJson(shape_ok, extra) ==
    [t |-> "obj", q |-> "Q1", shape_ok |-> shape_ok, extra |-> extra]

AmountStrings == {<<"1", "0", "0", "0">>, <<"0">>, <<"-", "1", "0", "0">>,
                  <<"i", "n", "v">>, <<>>,
                  \* 2^64, one more than u64::MAX
                  <<"1","8","4","4","6","7","4","4","0","7","3","7","0","9","5","5","1","6","1","6">>}
AddrValues == {Some(JStr("So11111111111111111111111111111111111111112")),
               Some(JStr(BadAddr))}

QuoteArgs ==
    {[EmptyArgs EXCEPT !.inputMint = im, !.outputMint = om, !.amount = Some(JStr(am)),
                       !.taker = tk, !.swapMode = sm, !.slippageBps = sl] :
        im \in AddrValues, om \in AddrValues, am \in AmountStrings,
        tk \in AddrValues \cup {None},
        sm \in {None, Some(JStr("ExactOut"))},
        sl \in {None, Some(JNum(100))}}

SwapArgs ==
    {[EmptyArgs EXCEPT !.quoteResponse = qr, !.userPublicKey = upk,
                       !.wrapAndUnwrapSol = w] :
        qr \in {None, Some(QuoteJson(TRUE, FALSE)), Some(QuoteJson(TRUE, TRUE)),
                Some(QuoteJson(FALSE, FALSE))},
        upk \in AddrValues \cup {None},
        w \in {None, Some(JBool(TRUE)), Some(JBool(FALSE))}}

BalanceArgs ==
    {[EmptyArgs EXCEPT !.walletAddress = wa, !.tokenMint = tm] :
        wa \in AddrValues \cup {None},
        tm \in {None, Some(JStr("EPjFWdd5AufqSSqeM2qN1xzybapC8G4wEGGkZwyTDt1v")),
                Some(JStr(BadAddr))}}

CallParams(name, arguments) == [t |-> "obj", name |-> name, arguments |-> arguments]

\* The params of tools/call lines: each tool with its own argument shapes,
\* with no arguments and with a non-object; an unknown tool; no name.
ToolCallParamsValues ==
    {CallParams(Some(JStr("get_quote")), Some(a)) : a \in QuoteArgs}
    \cup {CallParams(Some(JStr("execute_swap")), Some(a)) : a \in SwapArgs}
    \cup {CallParams(Some(JStr("get_token_balance")), Some(a)) : a \in BalanceArgs}
    \cup {CallParams(Some(JStr(n)), a) :
            n \in {"get_quote", "execute_swap", "get_token_balance", "transfer"},
            a \in {None, Some(JNum(7))}}
    \cup {CallParams(None, None)}

\* Envelope variations: members missing or of the wrong type, every method.
EnvelopeLines ==
    {JsonLine(v, id, m, p) :
        v \in {Some(JStr("2.0")), Some(JStr("1.0")), None},
        id \in {Some(JStr("1")), Some(JStr(SentinelId)), Some(JNum(7)), None},
        m \in {Some(JStr("initialize")), Some(JStr("tools/list")),
               Some(JStr("tools/call")), Some(JStr("ping")), None},
        p \in {None, Some(JNum(7)), Some(CallParams(Some(JStr("transfer")), None))}}

ToolCallLines ==
    {JsonLine(Some(JStr("2.0")), Some(JStr("1")), Some(JStr("tools/call")), Some(p)) :
        p \in ToolCallParamsValues}

Lines == {BlankLine, GarbageLine} \cup EnvelopeLines \cup ToolCallLines

\* line.trim().is_empty()
TrimmedIsEmpty(line) == line.raw = "blank"

\* serde_json::from_str::<McpRequest>(trimmed): jsonrpc, id and method must
\* be JSON strings; params is optional and of any type.
ParseRequest(line) ==
    IF /\ line.raw = "json"
       /\ IsJStr(line.jsonrpc) /\ IsJStr(line.id) /\ IsJStr(line.method)
    THEN Ok(McpRequest(line.jsonrpc[1].s, line.id[1].s, line.method[1].s, line.params))
    ELSE Err(JupiterMcpError("Serialization", <<"parse">>))

\* Whether the id member of a line can be read off it although the line is
\* no McpRequest.
IdReadable(line) == line.raw = "json" /\ IsJStr(line.id)

(***************************************************************************)
(* Tools.  A tool's execute runs up to its next external call (an await on *)
(* the aggregator or a blocking chain RPC) or to its return: a step is     *)
(* either Done(result) or Await(position, call, locals).                   *)
(***************************************************************************)
Done(result) == [done |-> TRUE, result |-> result]
Await(at, call, loc) == [done |-> FALSE, tpc |-> at, call |-> call, locals |-> loc]
NoLocals == [tool |-> "none"]

InvalidArguments == Err(JupiterMcpError("InvalidInput", <<"Invalid arguments: ", "serde">>))
OptIs(o, ty) == o = None \/ o[1].t = ty

(************************* tools/get_quote.rs ******************************)
\* serde_json::from_value::<QuoteRequest>(args)
QuoteRequestFromValue(args) ==
    IF /\ args.t = "obj"
       /\ IsJStr(args.inputMint) /\ IsJStr(args.outputMint)
       /\ IsJStr(args.amount) /\ IsJStr(args.taker)
       /\ OptIs(args.swapMode, "str")
       /\ (args.slippageBps = None
           \/ (args.slippageBps[1].t = "num" /\ args.slippageBps[1].n \in 0..65535))
    THEN Ok([input_mint |-> args.inputMint[1].s, output_mint |-> args.outputMint[1].s,
             amount |-> args.amount[1].s, taker |-> args.taker[1].s,
             swap_mode |-> IF args.swapMode = None THEN None ELSE Some(args.swapMode[1].s),
             slippage_bps |-> IF args.slippageBps = None THEN None
                              ELSE Some(args.slippageBps[1].n)])
    ELSE InvalidArguments

DefaultSlippageBps == 50

\* Fault injection for C13: the amount is sent on without being parsed.
GetQuoteStart_NoAmountCheck(config, args) ==
    LET r == QuoteRequestFromValue(args) IN
    IF ~r.ok THEN Done(r)
    ELSE LET request == r.v IN
    IF ~parse_pubkey(request.input_mint).ok THEN Done(parse_pubkey(request.input_mint))
    ELSE IF ~parse_pubkey(request.output_mint).ok THEN Done(parse_pubkey(request.output_mint))
    ELSE IF ~parse_pubkey(request.taker).ok THEN Done(parse_pubkey(request.taker))
    ELSE LET slippage_bps == UnwrapOr(request.slippage_bps, DefaultSlippageBps)
             swap_mode == UnwrapOr(request.swap_mode, "ExactIn")
             params == [inputMint |-> request.input_mint,
                        outputMint |-> request.output_mint,
                        amount |-> request.amount,
                        taker |-> request.taker,
                        swapMode |-> swap_mode,
                        slippageBps |-> NatToString(slippage_bps)]
         IN Await("quote_get", [op |-> "aggregator_get_order", params |-> params],
                  [tool |-> "get_quote"])

\* Fault injection for C22: the default slippage is sent whatever was given.
GetQuoteStart_SlippageIgnored(config, args) ==
    LET r == QuoteRequestFromValue(args) IN
    IF ~r.ok THEN Done(r)
    ELSE LET request == r.v IN
    IF ~parse_pubkey(request.input_mint).ok THEN Done(parse_pubkey(request.input_mint))
    ELSE IF ~parse_pubkey(request.output_mint).ok THEN Done(parse_pubkey(request.output_mint))
    ELSE IF ~parse_pubkey(request.taker).ok THEN Done(parse_pubkey(request.taker))
    ELSE IF ~ParseU64Ok(request.amount)
         THEN Done(Err(JupiterMcpError("InvalidInput", <<"Invalid amount: ", "parse">>)))
    ELSE LET slippage_bps == DefaultSlippageBps
             swap_mode == UnwrapOr(request.swap_mode, "ExactIn")
             params == [inputMint |-> request.input_mint,
                        outputMint |-> request.output_mint,
                        amount |-> request.amount,
                        taker |-> request.taker,
                        swapMode |-> swap_mode,
                        slippageBps |-> NatToString(slippage_bps)]
         IN Await("quote_get", [op |-> "aggregator_get_order", params |-> params],
                  [tool |-> "get_quote"])

\* GetQuoteTool::execute up to the GET https://ultra-api.jup.ag/order
GetQuoteStart(config, args) ==
    LET r == QuoteRequestFromValue(args) IN
    IF ~r.ok THEN Done(r)
    ELSE LET request == r.v IN
    IF ~parse_pubkey(request.input_mint).ok THEN Done(parse_pubkey(request.input_mint))
    ELSE IF ~parse_pubkey(request.output_mint).ok THEN Done(parse_pubkey(request.output_mint))
    ELSE IF ~parse_pubkey(request.taker).ok THEN Done(parse_pubkey(request.taker))
    ELSE IF ~ParseU64Ok(request.amount)
         THEN Done(Err(JupiterMcpError("InvalidInput", <<"Invalid amount: ", "parse">>)))
    ELSE LET slippage_bps == UnwrapOr(request.slippage_bps, DefaultSlippageBps)
             swap_mode == UnwrapOr(request.swap_mode, "ExactIn")
             params == [inputMint |-> request.input_mint,
                        outputMint |-> request.output_mint,
                        amount |-> request.amount,
                        taker |-> request.taker,
                        swapMode |-> swap_mode,
                        slippageBps |-> NatToString(slippage_bps)]
         IN Await("quote_get", [op |-> "aggregator_get_order", params |-> params],
                  [tool |-> "get_quote"])

\* The aggregator's replies to a request: a transport failure, a non-2xx
\* status with a body, a 2xx whose body is not the expected JSON, a 2xx
\* with the expected body.
HttpFailures ==
    {[kind |-> "transport_error"],
     [kind |-> "status", status |-> "400 Bad Request", text |-> "bad request"],
     [kind |-> "status", status |-> "500 Internal Server Error", text |-> "oops"],
     [kind |-> "bad_body"]}
HttpError == Err(JupiterMcpError("Http", <<"reqwest">>))

QuoteReplies ==
    HttpFailures \cup
    {[kind |-> "ok",
      quote |-> [in_amount |-> "1000", out_amount |-> "42",
                 price_impact_pct |-> "0.01", slippage_bps |-> sl,
                 labels |-> <<"Orca", "Raydium">>]] : sl \in {50, 100}}

\* GetQuoteTool::execute from the aggregator's reply to the return
GetQuoteFinish(reply) ==
    CASE reply.kind = "transport_error" -> HttpError
      [] reply.kind = "status" ->
            Err(JupiterMcpError("JupiterApi",
                    <<"Jupiter API error ", reply.status, ": ", reply.text>>))
      [] reply.kind = "bad_body" -> HttpError
      [] OTHER ->
            LET quote == reply.quote IN
            Ok(ToolResponseText(<<"Quote received", quote.in_amount, quote.out_amount,
                                  quote.price_impact_pct,
                                  NatToString(quote.slippage_bps)>> \o quote.labels))

(************************ tools/execute_swap.rs ****************************)
\* serde_json::from_value::<SwapRequest>(args).  The QuoteResponse struct
\* keeps the members it declares.
SwapRequestFromValue(args) ==
    IF /\ args.t = "obj"
       /\ IsSome(args.quoteResponse)
       /\ args.quoteResponse[1].t = "obj" /\ args.quoteResponse[1].shape_ok
       /\ OptIs(args.userPublicKey, "str")
       /\ OptIs(args.wrapAndUnwrapSol, "bool")
    THEN Ok([quote_response |-> [q |-> args.quoteResponse[1].q],
             user_public_key |-> IF args.userPublicKey = None THEN None
                                 ELSE Some(args.userPublicKey[1].s),
             wrap_and_unwrap_sol |-> IF args.wrapAndUnwrapSol = None THEN None
                                     ELSE Some(args.wrapAndUnwrapSol[1].b)])
    ELSE InvalidArguments

\* serde_json::to_value(&request.quote_response)
QuoteResponseToValue(quote_response) == [t |-> "obj", q |-> quote_response.q,
                                         shape_ok |-> TRUE, extra |-> FALSE]

\* Fault injection for C21: the wallet's own address is always the signer.
ExecuteSwapStart_WalletAlways(config, args) ==
    LET r == SwapRequestFromValue(args) IN
    IF ~r.ok THEN Done(r)
    ELSE LET request == r.v
             w == load_wallet(config) IN
    IF ~w.ok THEN Done(w)
    ELSE LET wallet == w.v
             user_public_key == wallet.pubkey
             wrap_and_unwrap_sol == UnwrapOr(request.wrap_and_unwrap_sol, TRUE)
             swap_request_body ==
                 [quoteResponse |-> QuoteResponseToValue(request.quote_response),
                  userPublicKey |-> user_public_key,
                  wrapAndUnwrapSol |-> wrap_and_unwrap_sol]
         IN Await("swap_post",
                  [op |-> "aggregator_post_swap", body |-> swap_request_body],
                  [tool |-> "execute_swap", wallet |-> wallet])

\* ExecuteSwapTool::execute up to the POST https://quote-api.jup.ag/v6/swap
ExecuteSwapStart(config, args) ==
    LET r == SwapRequestFromValue(args) IN
    IF ~r.ok THEN Done(r)
    ELSE LET request == r.v
             w == load_wallet(config) IN
    IF ~w.ok THEN Done(w)
    ELSE LET wallet == w.v
             user_public_key == UnwrapOr(request.user_public_key, wallet.pubkey)
             wrap_and_unwrap_sol == UnwrapOr(request.wrap_and_unwrap_sol, TRUE)
             swap_request_body ==
                 [quoteResponse |-> QuoteResponseToValue(request.quote_response),
                  userPublicKey |-> user_public_key,
                  wrapAndUnwrapSol |-> wrap_and_unwrap_sol]
         IN Await("swap_post",
                  [op |-> "aggregator_post_swap", body |-> swap_request_body],
                  [tool |-> "execute_swap", wallet |-> wallet])

\* swapTransaction payloads of a 2xx reply: not base64, base64 of bytes that
\* are no VersionedTransaction, base64 of a transaction.  The aggregator
\* does not hold the wallet key: the transaction it builds carries no
\* signature of the wallet.
SwapReplies ==
    HttpFailures \cup
    {[kind |-> "ok", payload |-> "not_base64"],
     [kind |-> "ok", payload |-> "not_a_transaction"]} \cup
    {[kind |-> "ok", payload |-> "transaction", message |-> m] : m \in {"M1", "M2"}}

\* Fault injection for C10: the status check after send() is missing, so a
\* non-2xx reply runs into response.json() and fails there.
ExecuteSwapBuilt_NoStatusCheck(reply, loc) ==
    CASE reply.kind \in {"transport_error", "status", "bad_body"} -> Done(HttpError)
      [] reply.payload = "not_base64" ->
            Done(Err(JupiterMcpError("SolanaSdk", <<"Failed to decode transaction: ", "base64">>)))
      [] reply.payload = "not_a_transaction" ->
            Done(Err(JupiterMcpError("SolanaSdk", <<"Failed to deserialize transaction: ", "bincode">>)))
      [] OTHER ->
            LET transaction == [message |-> reply.message, signed_by_wallet |-> FALSE]
            IN Await("swap_send",
                     [op |-> "send_transaction", transaction |-> transaction,
                      config |-> [skip_preflight |-> FALSE]],
                     [tool |-> "execute_swap", wallet |-> loc.wallet,
                      transaction |-> transaction])

\* ExecuteSwapTool::execute from the aggregator's reply to
\* send_transaction_with_config
ExecuteSwapBuilt(reply, loc) ==
    CASE reply.kind = "transport_error" -> Done(HttpError)
      [] reply.kind = "status" ->
            Done(Err(JupiterMcpError("JupiterApi",
                    <<"Jupiter swap API error ", reply.status, ": ", reply.text>>)))
      [] reply.kind = "bad_body" -> Done(HttpError)
      [] reply.payload = "not_base64" ->
            Done(Err(JupiterMcpError("SolanaSdk", <<"Failed to decode transaction: ", "base64">>)))
      [] reply.payload = "not_a_transaction" ->
            Done(Err(JupiterMcpError("SolanaSdk", <<"Failed to deserialize transaction: ", "bincode">>)))
      [] OTHER ->
            LET transaction == [message |-> reply.message, signed_by_wallet |-> FALSE]
                send_config == [skip_preflight |-> FALSE]
            IN Await("swap_send",
                     [op |-> "send_transaction", transaction |-> transaction,
                      config |-> send_config],
                     [tool |-> "execute_swap", wallet |-> loc.wallet,
                      transaction |-> transaction])

RpcFailure == [kind |-> "rpc_error", text |-> "rpc failed"]
ClientError(reply) == Err(JupiterMcpError("SolanaClient", <<reply.text>>))
Signatures == {"Sig1", "Sig2"}
SendReplies == {RpcFailure} \cup {[kind |-> "ok", signature |-> g] : g \in Signatures}

\* Fault injection for C25: a rejected submission is confirmed all the same.
ExecuteSwapSent_ConfirmAfterRejection(reply, loc) ==
    LET signature == IF reply.kind = "rpc_error" THEN "Sig1" ELSE reply.signature
    IN Await("swap_confirm",
             [op |-> "confirm_transaction", signature |-> signature],
             [tool |-> "execute_swap", wallet |-> loc.wallet,
              transaction |-> loc.transaction, signature |-> signature])

\* ExecuteSwapTool::execute from the reply to send_transaction_with_config
\* to confirm_transaction
ExecuteSwapSent(reply, loc) ==
    IF reply.kind = "rpc_error" THEN Done(ClientError(reply))
    ELSE Await("swap_confirm",
               [op |-> "confirm_transaction", signature |-> reply.signature],
               [tool |-> "execute_swap", wallet |-> loc.wallet,
                transaction |-> loc.transaction, signature |-> reply.signature])

ConfirmReplies == {RpcFailure} \cup {[kind |-> "ok", confirmed |-> b] : b \in BOOLEAN}

\* ExecuteSwapTool::execute from the reply to confirm_transaction to the
\* return: the `?` takes the error, the boolean of Ok is dropped.
ExecuteSwapFinish(reply, loc, config) ==
    IF reply.kind = "rpc_error" THEN Done(ClientError(reply))
    ELSE Done(Ok(ToolResponseText(
                <<"Swap executed successfully!", "Signature: ", loc.signature,
                  "Explorer: ">> \o get_explorer_url(loc.signature, config))))

(************************* tools/get_balance.rs ****************************)
(***************************************************************************)
(* u64 and f64 arithmetic, as utils.rs uses it.  A u64 is a natural number *)
(* written as its decimal digits, least significant first, without high    *)
(* zeros (0 is <<>>): TLC's integers are 32 bits wide.  A finite f64 is    *)
(* m * 2^e, and the results of `as f64` and `/` are rounded to 53          *)
(* significant bits, ties to even, as IEEE 754 does.                       *)
(***************************************************************************)
BDigit(a, i) == IF i >= 1 /\ i <= Len(a) THEN a[i] ELSE 0
BNorm(a) ==
    LET used == {i \in 1..Len(a) : a[i] # 0}
    IN IF used = {} THEN <<>>
       ELSE SubSeq(a, 1, CHOOSE i \in used : \A j \in used : j <= i)

RECURSIVE FromNat(_)
FromNat(n) == IF n = 0 THEN <<>> ELSE <<n % 10>> \o FromNat(n \div 10)

BLess(a, b) ==
    \/ Len(a) < Len(b)
    \/ /\ Len(a) = Len(b)
       /\ \E i \in 1..Len(a) :
             a[i] < b[i] /\ \A j \in (i + 1)..Len(a) : a[j] = b[j]
BLeq(a, b) == a = b \/ BLess(a, b)

\* a + 1
BInc(a) ==
    LET low == {i \in 1..Len(a) : a[i] # 9}
    IN IF low = {} THEN [i \in 1..(Len(a) + 1) |-> IF i > Len(a) THEN 1 ELSE 0]
       ELSE LET p == CHOOSE i \in low : \A j \in low : i <= j
            IN [i \in 1..Len(a) |-> IF i < p THEN 0 ELSE IF i = p THEN a[i] + 1 ELSE a[i]]

\* a - b for a >= b: digit i borrows when the digits below it are less
BSub(a, b) ==
    LET borrow(i) == \E j \in 1..(i - 1) :
                        /\ a[j] < BDigit(b, j)
                        /\ \A k \in (j + 1)..(i - 1) : a[k] = BDigit(b, k)
    IN BNorm([i \in 1..Len(a) |->
                 (a[i] - BDigit(b, i) - (IF borrow(i) THEN 1 ELSE 0) + 10) % 10])

\* the digits of the number whose i-th digit place holds the value c[i]
RECURSIVE BCarry(_, _, _)
BCarry(c, i, carry) ==
    IF i > Len(c) THEN FromNat(carry)
    ELSE LET t == c[i] + carry IN <<t % 10>> \o BCarry(c, i + 1, t \div 10)

\* a * k for k below 2^27
BMulSmall(a, k) == BNorm(BCarry([i \in 1..Len(a) |-> a[i] * k], 1, 0))

RECURSIVE BConv(_, _, _, _)
BConv(a, b, k, i) ==
    IF i > Len(a) THEN 0 ELSE a[i] * BDigit(b, k + 1 - i) + BConv(a, b, k, i + 1)
\* a * b
BMul(a, b) ==
    IF a = <<>> \/ b = <<>> THEN <<>>
    ELSE BNorm(BCarry([k \in 1..(Len(a) + Len(b) - 1) |-> BConv(a, b, k, 1)], 1, 0))

ShiftChunk == 24
\* a * 2^k
RECURSIVE BShiftLeft(_, _)
BShiftLeft(a, k) ==
    IF k <= ShiftChunk THEN BMulSmall(a, 2 ^ k)
    ELSE BShiftLeft(BMulSmall(a, 2 ^ ShiftChunk), k - ShiftChunk)
TwoPow(k) == BShiftLeft(<<1>>, k)
\* a * 10^d
BTimesPow10(a, d) == IF a = <<>> THEN a ELSE [i \in 1..d |-> 0] \o a
BIsOdd(a) == a # <<>> /\ a[1] % 2 = 1

\* how often b fits into t, and what is left, for t < 10 * b
RECURSIVE BFit(_, _, _)
BFit(t, b, c) == IF BLess(t, b) THEN [q |-> c, r |-> t] ELSE BFit(BSub(t, b), b, c + 1)
\* long division from the digit at i down: a = q * b + r
RECURSIVE BDivAt(_, _, _, _, _)
BDivAt(a, b, i, rem, q) ==
    IF i = 0 THEN [q |-> BNorm(q), r |-> rem]
    ELSE LET f == BFit(BNorm(<<a[i]>> \o rem), b, 0)
         IN CASE f.q \in 0..9 -> BDivAt(a, b, i - 1, f.r, <<f.q>> \o q)
BDivMod(a, b) == BDivAt(a, b, Len(a), <<>>, <<>>)

\* x / 2^k rounded to an integer, ties to even; sticky tells that x itself
\* is the floor of a value that was not an integer
RoundShift(x, k, sticky) ==
    IF k = 0 THEN x
    ELSE LET d == BDivMod(x, TwoPow(k))
             half == TwoPow(k - 1)
             up == \/ BLess(half, d.r)
                   \/ d.r = half /\ (sticky \/ BIsOdd(d.q))
         IN IF up THEN BInc(d.q) ELSE d.q

U64Bits == 64
U64Limit == TwoPow(U64Bits)
F64Precision == 53
MaxBits == 160
\* the number of bits of n
BitLen(n) ==
    IF n = <<>> THEN 0
    ELSE CHOOSE k \in 1..MaxBits : BLess(n, TwoPow(k)) /\ BLeq(TwoPow(k - 1), n)

F64(m, e) == [cls |-> "finite", m |-> m, e |-> e]
F64Inf == [cls |-> "inf"]
F64NaN == [cls |-> "nan"]

\* `n as f64` for a u64 n
u64_as_f64(n) ==
    LET k == IF BitLen(n) > F64Precision THEN BitLen(n) - F64Precision ELSE 0
    IN F64(RoundShift(n, k, FALSE), k)

\* x / y for finite x >= 0 and y >= 0: the quotient is taken to 54 or 55
\* bits and a remainder, then rounded to 53 bits
f64_div(x, y) ==
    IF y.m = <<>> THEN (IF x.m = <<>> THEN F64NaN ELSE F64Inf)
    ELSE IF x.m = <<>> THEN F64(<<>>, 0)
    ELSE LET s == F64Precision + 1 - (BitLen(x.m) - BitLen(y.m))
             d == IF s >= 0 THEN BDivMod(BShiftLeft(x.m, s), y.m)
                  ELSE BDivMod(x.m, BShiftLeft(y.m, -s))
             t == BitLen(d.q) - F64Precision
         IN F64(RoundShift(d.q, t, d.r # <<>>), x.e - y.e - s + t)

\* the decimal digits of r from the digit at i down, most significant
\* first, with a point before the last prec digits
RECURSIVE BPointed(_, _, _)
BPointed(r, prec, i) ==
    IF i = 0 THEN <<>>
    ELSE (IF i = prec THEN <<".">> ELSE <<>>)
         \o <<DigitChars[BDigit(r, i) + 1]>> \o BPointed(r, prec, i - 1)

\* format!("{:.prec$}", x): x rounded to prec fractional digits, ties to even
f64_format(x, prec) ==
    IF x.cls = "inf" THEN <<"i", "n", "f">>
    ELSE IF x.cls = "nan" THEN <<"N", "a", "N">>
    ELSE LET n == BTimesPow10(x.m, prec)
             r == IF x.e >= 0 THEN BShiftLeft(n, x.e) ELSE RoundShift(n, -x.e, FALSE)
             len == IF Len(r) > prec THEN Len(r) ELSE prec + 1
         IN BPointed(r, prec, len)

\* a * b in u64: the product modulo 2^64, and whether it overflowed
u64_mul(a, b) ==
    LET p == BMul(a, b)
    IN IF BLess(p, U64Limit) THEN [overflow |-> FALSE, value |-> p]
       ELSE [overflow |-> TRUE, value |-> BDivMod(p, U64Limit).r]

\* u64::pow by repeated squaring; st = [base, acc, overflow]
RECURSIVE u64_pow_loop(_, _)
u64_pow_loop(st, exp) ==
    IF exp <= 1
    THEN LET r == u64_mul(st.acc, st.base)
         IN [overflow |-> st.overflow \/ r.overflow, value |-> r.value]
    ELSE LET a == IF exp % 2 = 1 THEN u64_mul(st.acc, st.base)
                  ELSE [overflow |-> FALSE, value |-> st.acc]
             b == u64_mul(st.base, st.base)
         IN u64_pow_loop([base |-> b.value, acc |-> a.value,
                          overflow |-> st.overflow \/ a.overflow \/ b.overflow],
                         exp \div 2)
u64_pow(base, exp) ==
    IF exp = 0 THEN [overflow |-> FALSE, value |-> <<1>>]
    ELSE u64_pow_loop([base |-> base, acc |-> <<1>>, overflow |-> FALSE], exp)

\* utils.rs: format!("{:.9}", lamports as f64 / 1_000_000_000.0)
SolDecimals == 9
LamportsPerSol == 1000000000
format_sol(lamports) ==
    f64_format(f64_div(u64_as_f64(lamports), F64(FromNat(LamportsPerSol), 0)),
               SolDecimals)

\* utils.rs: 10_u64.pow(decimals as u32) overflows from 10^20 on.  With
\* overflow checks (the dev profile) the multiplication panics; without
\* them (the release profile) it wraps and format_token_amount goes on with
\* the wrapped divisor.
format_token_amount_panics(decimals, overflow_checks) ==
    overflow_checks /\ u64_pow(<<0, 1>>, decimals).overflow
format_token_amount(amount, decimals) ==
    LET divisor == u64_as_f64(u64_pow(<<0, 1>>, decimals).value)
    IN f64_format(f64_div(u64_as_f64(amount), divisor), decimals)

\* serde_json::from_value::<BalanceRequest>(args)
BalanceRequestFromValue(args) ==
    IF /\ args.t = "obj"
       /\ IsJStr(args.walletAddress)
       /\ OptIs(args.tokenMint, "str")
    THEN Ok([wallet_address |-> args.walletAddress[1].s,
             token_mint |-> IF args.tokenMint = None THEN None
                            ELSE Some(args.tokenMint[1].s)])
    ELSE InvalidArguments

\* Fault injection for C16: the native balance is queried for the wallet
\* string as given, valid or not.
GetBalanceStart_WalletUnchecked(config, args) ==
    LET r == BalanceRequestFromValue(args) IN
    IF ~r.ok THEN Done(r)
    ELSE LET request == r.v
             wallet_pubkey == parse_pubkey(request.wallet_address) IN
    IF request.token_mint = None
    THEN Await("bal_native", [op |-> "get_balance", pubkey |-> request.wallet_address],
               [tool |-> "get_token_balance"])
    ELSE IF ~wallet_pubkey.ok THEN Done(wallet_pubkey)
    ELSE LET mint_pubkey == parse_pubkey(request.token_mint[1]) IN
    IF ~mint_pubkey.ok THEN Done(mint_pubkey)
    ELSE Await("bal_accounts",
               [op |-> "get_token_accounts_by_owner", owner |-> wallet_pubkey.v,
                mint |-> mint_pubkey.v],
               [tool |-> "get_token_balance", mint |-> mint_pubkey.v])

\* GetBalanceTool::execute up to its first chain query
GetBalanceStart(config, args) ==
    LET r == BalanceRequestFromValue(args) IN
    IF ~r.ok THEN Done(r)
    ELSE LET request == r.v
             wallet_pubkey == parse_pubkey(request.wallet_address) IN
    IF ~wallet_pubkey.ok THEN Done(wallet_pubkey)
    ELSE IF request.token_mint = None
    THEN Await("bal_native", [op |-> "get_balance", pubkey |-> wallet_pubkey.v],
               [tool |-> "get_token_balance"])
    ELSE LET mint_pubkey == parse_pubkey(request.token_mint[1]) IN
    IF ~mint_pubkey.ok THEN Done(mint_pubkey)
    ELSE Await("bal_accounts",
               [op |-> "get_token_accounts_by_owner", owner |-> wallet_pubkey.v,
                mint |-> mint_pubkey.v],
               [tool |-> "get_token_balance", mint |-> mint_pubkey.v])

BalanceReplies == {RpcFailure} \cup
    {[kind |-> "ok", lamports |-> FromNat(n)] : n \in {0, 1, 500000000, 1000000000}}

\* GetBalanceTool::execute, the native branch, from the reply to get_balance
GetBalanceNativeFinish(reply) ==
    IF reply.kind = "rpc_error" THEN Done(ClientError(reply))
    ELSE Done(Ok(ToolResponseText(<<"SOL Balance: ">> \o format_sol(reply.lamports)
                                  \o <<" SOL">>)))

\* Replies to get_token_accounts_by_owner: the keyed accounts' pubkey strings.
TokenAccountsReplies == {RpcFailure} \cup
    {[kind |-> "ok", accounts |-> a] :
        a \in {<<>>, <<"So11111111111111111111111111111111111111112">>, <<BadAddr>>}}

\* Fault injection for C15: an empty account list is an error.
GetTokenBalanceAccounts_EmptyIsError(reply, loc) ==
    IF reply.kind = "rpc_error" THEN Done(ClientError(reply))
    ELSE IF reply.accounts = <<>>
    THEN Done(Err(JupiterMcpError("SolanaSdk", <<"Token account not found">>)))
    ELSE LET token_account_pubkey == parse_pubkey(reply.accounts[1]) IN
    IF ~token_account_pubkey.ok THEN Done(token_account_pubkey)
    ELSE Await("bal_token_account",
               [op |-> "get_account_data", pubkey |-> token_account_pubkey.v],
               [tool |-> "get_token_balance", mint |-> loc.mint])

\* get_token_balance from the reply to get_token_accounts_by_owner
GetTokenBalanceAccounts(reply, loc) ==
    IF reply.kind = "rpc_error" THEN Done(ClientError(reply))
    ELSE IF reply.accounts = <<>>
    THEN Done(Ok(ToolResponseText(<<"Token account not found - Balance: 0">>)))
    ELSE LET token_account_pubkey == parse_pubkey(reply.accounts[1]) IN
    IF ~token_account_pubkey.ok THEN Done(token_account_pubkey)
    ELSE Await("bal_token_account",
               [op |-> "get_account_data", pubkey |-> token_account_pubkey.v],
               [tool |-> "get_token_balance", mint |-> loc.mint])

TokenAccountReplies == {RpcFailure, [kind |-> "ok", unpack |-> FALSE]} \cup
    {[kind |-> "ok", unpack |-> TRUE, amount |-> FromNat(n)] : n \in {0, 1000000, 500000}}

\* get_token_balance from the token account's data to the mint query
GetTokenBalanceAccount(reply, loc) ==
    IF reply.kind = "rpc_error" THEN Done(ClientError(reply))
    ELSE IF ~reply.unpack
    THEN Done(Err(JupiterMcpError("SolanaSdk", <<"Failed to parse token account: ", "unpack">>)))
    ELSE Await("bal_mint", [op |-> "get_account_data", pubkey |-> loc.mint],
               [tool |-> "get_token_balance", mint |-> loc.mint, amount |-> reply.amount])

\* Replies to get_account_data for the mint: its decimals, among them one
\* for which 10^decimals does not fit in a u64.
MintReplies == {RpcFailure, [kind |-> "ok", unpack |-> FALSE]} \cup
    {[kind |-> "ok", unpack |-> TRUE, decimals |-> d] : d \in {0, 6, 20}}

\* get_token_balance returned Some((balance, decimals)) and
\* format_token_amount panics on 10_u64.pow(decimals)
GetTokenBalanceMintPanics(reply, overflow_checks) ==
    /\ reply.kind = "ok" /\ reply.unpack
    /\ format_token_amount_panics(reply.decimals, overflow_checks)

\* get_token_balance from the mint's data to the return of execute
GetTokenBalanceMint(reply, loc) ==
    IF reply.kind = "rpc_error" THEN Done(ClientError(reply))
    ELSE IF ~reply.unpack
    THEN Done(Err(JupiterMcpError("SolanaSdk", <<"Failed to parse mint: ", "unpack">>)))
    ELSE Done(Ok(ToolResponseText(<<"Token Balance: ">>
                                  \o format_token_amount(loc.amount, reply.decimals))))

(***************************************************************************)
(* server.rs: the dispatcher.                                              *)
(***************************************************************************)
\* Fault injection for C17: the third definition repeats the second's name.
get_tools_DuplicateName ==
    <<[name |-> "get_quote",
       required |-> <<"inputMint", "outputMint", "amount", "taker">>],
      [name |-> "execute_swap", required |-> <<"quoteResponse">>],
      [name |-> "execute_swap", required |-> <<"walletAddress">>]>>

\* McpServer::get_tools: the three definitions, by name and required list.
get_tools ==
    <<[name |-> "get_quote",
       required |-> <<"inputMint", "outputMint", "amount", "taker">>],
      [name |-> "execute_swap", required |-> <<"quoteResponse">>],
      [name |-> "get_token_balance", required |-> <<"walletAddress">>]>>

handle_tools_list == Ok([tools |-> get_tools])

InitializeResult ==
    [protocolVersion |-> "2024-11-05", capabilities |-> "tools",
     serverInfo |-> [name |-> "jupiter-ag-mcp", version |-> "1.0.0"]]

\* Fault injection for C19: get_quote is dispatched to the balance tool and
\* an unknown name to the quote tool.
handle_tools_call_Misdispatch(config, params) ==
    IF ~(params.t = "obj" /\ IsJStr(params.name))
    THEN Done(Err(JupiterMcpError("InvalidInput", <<"Invalid tool call params: ", "serde">>)))
    ELSE LET name == params.name[1].s
             args == UnwrapOr(params.arguments, EmptyArgs)
         IN CASE name = "get_quote" -> GetBalanceStart(config, args)
              [] name = "execute_swap" -> ExecuteSwapStart(config, args)
              [] name = "get_token_balance" -> GetBalanceStart(config, args)
              [] OTHER -> GetQuoteStart(config, args)

\* McpServer::handle_tools_call up to the tool's first external call
handle_tools_call(config, params) ==
    IF ~(params.t = "obj" /\ IsJStr(params.name))
    THEN Done(Err(JupiterMcpError("InvalidInput", <<"Invalid tool call params: ", "serde">>)))
    ELSE LET name == params.name[1].s
             args == UnwrapOr(params.arguments, EmptyArgs)
         IN CASE name = "get_quote" -> GetQuoteStart(config, args)
              [] name = "execute_swap" -> ExecuteSwapStart(config, args)
              [] name = "get_token_balance" -> GetBalanceStart(config, args)
              [] OTHER -> Done(Err(JupiterMcpError("InvalidInput",
                                                   <<"Unknown tool: ", name>>)))

\* Fault injection for C18: missing params are reported as an internal error.
handle_request_MissingParamsInternal(request) ==
    CASE request.method = "tools/list" ->
            IF handle_tools_list.ok
            THEN McpResponseSuccess(request.id, handle_tools_list.v)
            ELSE McpResponseError(request.id, InternalErrorCode,
                                  to_string(handle_tools_list.e))
      [] request.method = "tools/call" ->
            McpResponseError(request.id, InternalErrorCode, <<"Missing params">>)
      [] request.method = "initialize" ->
            McpResponseSuccess(request.id, InitializeResult)
      [] OTHER ->
            McpResponseError(request.id, MethodNotFoundCode, <<"Method not found">>)

\* Fault injection for C20: initialize without params is refused.
handle_request_InitializeNeedsParams(request) ==
    CASE request.method = "tools/list" ->
            IF handle_tools_list.ok
            THEN McpResponseSuccess(request.id, handle_tools_list.v)
            ELSE McpResponseError(request.id, InternalErrorCode,
                                  to_string(handle_tools_list.e))
      [] request.method = "tools/call" ->
            McpResponseError(request.id, InvalidParamsCode, <<"Missing params">>)
      [] request.method = "initialize" ->
            IF request.params = None
            THEN McpResponseError(request.id, InvalidParamsCode, <<"Missing params">>)
            ELSE McpResponseSuccess(request.id, InitializeResult)
      [] OTHER ->
            McpResponseError(request.id, MethodNotFoundCode, <<"Method not found">>)

\* McpServer::handle_request, the arms that call no tool.  tools/call with
\* params is ToolsCallResponse below, applied to what handle_tools_call
\* returned.
handle_request(request) ==
    CASE request.method = "tools/list" ->
            IF handle_tools_list.ok
            THEN McpResponseSuccess(request.id, handle_tools_list.v)
            ELSE McpResponseError(request.id, InternalErrorCode,
                                  to_string(handle_tools_list.e))
      [] request.method = "tools/call" ->
            McpResponseError(request.id, InvalidParamsCode, <<"Missing params">>)
      [] request.method = "initialize" ->
            McpResponseSuccess(request.id, InitializeResult)
      [] OTHER ->
            McpResponseError(request.id, MethodNotFoundCode, <<"Method not found">>)

\* Fault injection for C3: the error arm answers with the sentinel id.
ToolsCallResponse_SentinelId(request, result) ==
    IF result.ok
    THEN McpResponseSuccess(request.id, result.v)
    ELSE McpResponseError(SentinelId, InternalErrorCode, to_string(result.e))

\* Fault injection for C7: the error arm answers with a fixed message.
ToolsCallResponse_FixedMessage(request, result) ==
    IF result.ok
    THEN McpResponseSuccess(request.id, result.v)
    ELSE McpResponseError(request.id, InternalErrorCode, <<"Internal error">>)

\* McpServer::handle_request, the tools/call arm after handle_tools_call
\* has returned `result`.
ToolsCallResponse(request, result) ==
    IF result.ok
    THEN McpResponseSuccess(request.id, result.v)
    ELSE McpResponseError(request.id, InternalErrorCode, to_string(result.e))

\* run_stdio's response to a line that is no McpRequest.
ParseErrorResponse == McpResponseError(SentinelId, ParseErrorCode, <<"Parse error">>)

(***************************************************************************)
(* State.                                                                  *)
(***************************************************************************)
VARIABLES
    config,      \* McpServer.config, set by McpServer::new
    pc,          \* position of run_stdio: "read", "tool", "write_json",
                 \* "write_nl", "flush", "done"
    ret,         \* what run_stdio returned: "running", "Ok", "Err", or
                 \* "Panic" when it was unwound by a panic
    io,          \* outcome of the last read_line: "none", "line", "eof", "err"
    line,        \* the line buffer: None after line.clear()
    kinds,       \* per line read so far: "blank", "bad" (no McpRequest), "req"
    request,     \* the McpRequest being handled
    response,    \* the McpResponse to write
    out,         \* stdout: the chunks written, each tagged with its line number
    flushed,     \* number of chunks of out that have been flushed
    tpc,         \* position of the running tool: "idle" or the call awaited
    locals,      \* the running tool's local variables
    calls,       \* external calls made while handling the current line
    replies,     \* the replies to them
    toolResult   \* what handle_tools_call returned for the current request

vars == <<config, pc, ret, io, line, kinds, request, response, out, flushed,
          tpc, locals, calls, replies, toolResult>>

Init ==
    /\ config \in Configs
    /\ pc = "read"
    /\ ret = "running"
    /\ io = "none"
    /\ line = None
    /\ kinds = <<>>
    /\ request = None
    /\ response = None
    /\ out = <<>>
    /\ flushed = 0
    /\ tpc = "idle"
    /\ locals = NoLocals
    /\ calls = <<>>
    /\ replies = <<>>
    /\ toolResult = None

\* Fault injection for C27: the replies of the last request are kept across
\* the loop.
BackToRead_KeepsReplies ==
    /\ pc' = "read"
    /\ line' = None
    /\ request' = None
    /\ response' = None
    /\ tpc' = "idle"
    /\ locals' = NoLocals
    /\ calls' = <<>>
    /\ replies' = replies
    /\ toolResult' = None

\* The top of the loop: line.clear(), nothing of the last request is kept.
BackToRead ==
    /\ pc' = "read"
    /\ line' = None
    /\ request' = None
    /\ response' = None
    /\ tpc' = "idle"
    /\ locals' = NoLocals
    /\ calls' = <<>>
    /\ replies' = <<>>
    /\ toolResult' = None

\* handle_request's tools/call arm: the tool returned (the response is
\* built and run_stdio goes on to write it) or awaits an external call.
TakeStep(req, step) ==
    IF step.done
    THEN /\ toolResult' = Some(step.result)
         /\ response' = Some(ToolsCallResponse(req, step.result))
         /\ pc' = "write_json"
         /\ tpc' = "idle"
         /\ locals' = NoLocals
         /\ calls' = calls
    ELSE /\ toolResult' = None
         /\ response' = None
         /\ pc' = "tool"
         /\ tpc' = step.tpc
         /\ locals' = step.locals
         /\ calls' = Append(calls, step.call)

(***************************************************************************)
(* run_stdio: read_line and what follows it up to the first write or       *)
(* external call.                                                          *)
(***************************************************************************)
\* Fault injection for C6: end-of-stream continues the loop.
OnEof_Continue ==
    /\ io' = "eof"
    /\ pc' = "read"
    /\ ret' = ret
    /\ UNCHANGED <<line, kinds, request, response, out, flushed, tpc, locals,
                   calls, replies, toolResult>>

\* Ok(0): break, then Ok(())
OnEof ==
    /\ io' = "eof"
    /\ pc' = "done"
    /\ ret' = "Ok"
    /\ UNCHANGED <<line, kinds, request, response, out, flushed, tpc, locals,
                   calls, replies, toolResult>>

\* Err(e): the error is logged, break, then Ok(())
OnReadError ==
    /\ io' = "err"
    /\ pc' = "done"
    /\ ret' = "Ok"
    /\ UNCHANGED <<line, kinds, request, response, out, flushed, tpc, locals,
                   calls, replies, toolResult>>

\* Fault injection for C1: a blank line is not skipped but handed to the
\* parser, which rejects it.
OnBlankLine_NotSkipped(l) ==
    /\ io' = "line"
    /\ line' = Some(l)
    /\ kinds' = Append(kinds, "blank")
    /\ request' = None
    /\ response' = Some(McpResponseError(SentinelId, ParseErrorCode, <<"Parse error">>))
    /\ pc' = "write_json"
    /\ UNCHANGED <<ret, out, flushed, tpc, locals, calls, replies, toolResult>>

\* Ok(_) with a line that is empty after trim: continue
OnBlankLine(l) ==
    /\ io' = "line"
    /\ kinds' = Append(kinds, "blank")
    /\ BackToRead
    /\ UNCHANGED <<ret, out, flushed>>

\* Fault injection for C2: a line that does not parse ends the loop.
OnParseError_Break(l) ==
    /\ io' = "line"
    /\ line' = Some(l)
    /\ kinds' = Append(kinds, "bad")
    /\ pc' = "done"
    /\ ret' = "Ok"
    /\ UNCHANGED <<request, response, out, flushed, tpc, locals, calls, replies,
                   toolResult>>

\* Ok(_) with a line that from_str rejects: the parse-error response
OnParseError(l) ==
    /\ io' = "line"
    /\ line' = Some(l)
    /\ kinds' = Append(kinds, "bad")
    /\ request' = None
    /\ response' = Some(ParseErrorResponse)
    /\ pc' = "write_json"
    /\ UNCHANGED <<ret, out, flushed, tpc, locals, calls, replies, toolResult>>

\* Ok(_) with a request: handle_request
OnRequest(l, req) ==
    /\ io' = "line"
    /\ line' = Some(l)
    /\ kinds' = Append(kinds, "req")
    /\ request' = Some(req)
    /\ IF req.method = "tools/call" /\ IsSome(req.params)
       THEN TakeStep(req, handle_tools_call(config, req.params[1]))
       ELSE /\ response' = Some(handle_request(req))
            /\ pc' = "write_json"
            /\ UNCHANGED <<tpc, locals, calls, toolResult>>
    /\ UNCHANGED <<ret, out, flushed, replies>>

ReadLine ==
    /\ pc = "read"
    /\ \/ OnEof
       \/ OnReadError
       \/ /\ Len(kinds) < MaxLines
          /\ \E l \in Lines :
                IF TrimmedIsEmpty(l) THEN OnBlankLine(l)
                ELSE IF ~ParseRequest(l).ok THEN OnParseError(l)
                ELSE OnRequest(l, ParseRequest(l).v)
    /\ UNCHANGED config

(***************************************************************************)
(* The tools' external calls return.                                       *)
(***************************************************************************)
ToolFrame == <<config, ret, io, line, kinds, request, out, flushed>>

\* The reply is received and the tool runs on to its next call or return.
Replied(reply, step) ==
    /\ replies' = Append(replies, reply)
    /\ TakeStep(request[1], step)

QuoteReply ==
    /\ pc = "tool" /\ tpc = "quote_get"
    /\ \E reply \in QuoteReplies : Replied(reply, Done(GetQuoteFinish(reply)))
    /\ UNCHANGED ToolFrame

SwapBuildReply ==
    /\ pc = "tool" /\ tpc = "swap_post"
    /\ \E reply \in SwapReplies : Replied(reply, ExecuteSwapBuilt(reply, locals))
    /\ UNCHANGED ToolFrame

SwapSendReply ==
    /\ pc = "tool" /\ tpc = "swap_send"
    /\ \E reply \in SendReplies : Replied(reply, ExecuteSwapSent(reply, locals))
    /\ UNCHANGED ToolFrame

SwapConfirmReply ==
    /\ pc = "tool" /\ tpc = "swap_confirm"
    /\ \E reply \in ConfirmReplies :
          Replied(reply, ExecuteSwapFinish(reply, locals, config))
    /\ UNCHANGED ToolFrame

BalanceNativeReply ==
    /\ pc = "tool" /\ tpc = "bal_native"
    /\ \E reply \in BalanceReplies : Replied(reply, GetBalanceNativeFinish(reply))
    /\ UNCHANGED ToolFrame

TokenAccountsReply ==
    /\ pc = "tool" /\ tpc = "bal_accounts"
    /\ \E reply \in TokenAccountsReplies :
          Replied(reply, GetTokenBalanceAccounts(reply, locals))
    /\ UNCHANGED ToolFrame

TokenAccountReply ==
    /\ pc = "tool" /\ tpc = "bal_token_account"
    /\ \E reply \in TokenAccountReplies :
          Replied(reply, GetTokenBalanceAccount(reply, locals))
    /\ UNCHANGED ToolFrame

\* A panic in the tool unwinds through handle_request, run_stdio and main:
\* the tool's frame is dropped and the process ends with no response built.
ToolPanicked(reply) ==
    /\ replies' = Append(replies, reply)
    /\ pc' = "done"
    /\ ret' = "Panic"
    /\ tpc' = "idle"
    /\ locals' = NoLocals
    /\ UNCHANGED <<toolResult, response, calls>>

\* the build's overflow checks are on (dev profile) or off (release profile)
MintReply ==
    /\ pc = "tool" /\ tpc = "bal_mint"
    /\ \E reply \in MintReplies, overflow_checks \in BOOLEAN :
          IF GetTokenBalanceMintPanics(reply, overflow_checks)
          THEN ToolPanicked(reply)
          ELSE Replied(reply, GetTokenBalanceMint(reply, locals)) /\ ret' = ret
    /\ UNCHANGED <<config, io, line, kinds, request, out, flushed>>

(***************************************************************************)
(* run_stdio: the response is written.  Each of write_all, write_all and   *)
(* flush can fail, and `?` returns the error from run_stdio.               *)
(***************************************************************************)
Chunk(part) == [n |-> Len(kinds), part |-> part]

WriteFailed ==
    /\ pc' = "done"
    /\ ret' = "Err"

\* stdout.write_all(response_json.as_bytes()).await?
WriteJson ==
    /\ pc = "write_json"
    /\ \/ /\ out' = Append(out, Chunk("json"))
          /\ pc' = "write_nl"
          /\ ret' = ret
       \/ /\ out' = Append(out, Chunk("partial"))
          /\ WriteFailed
       \/ /\ out' = out
          /\ WriteFailed
    /\ UNCHANGED <<config, io, line, kinds, request, response, flushed, tpc,
                   locals, calls, replies, toolResult>>

\* Fault injection for C4: the newline is written and the next line is
\* read without a flush.
WriteNewline_NoFlush ==
    /\ pc = "write_nl"
    /\ \/ /\ out' = Append(out, Chunk("nl"))
          /\ BackToRead
          /\ ret' = ret
       \/ /\ out' = out
          /\ WriteFailed
          /\ UNCHANGED <<line, request, response, tpc, locals, calls, replies,
                         toolResult>>
    /\ UNCHANGED <<config, io, kinds, flushed>>

\* stdout.write_all(b"\n").await?
WriteNewline ==
    /\ pc = "write_nl"
    /\ \/ /\ out' = Append(out, Chunk("nl"))
          /\ pc' = "flush"
          /\ ret' = ret
       \/ /\ out' = out
          /\ WriteFailed
    /\ UNCHANGED <<config, io, line, kinds, request, response, flushed, tpc,
                   locals, calls, replies, toolResult>>

\* stdout.flush().await?, then the next iteration
FlushOk ==
    /\ flushed' = Len(out)
    /\ BackToRead
    /\ UNCHANGED <<ret, out>>

Flush ==
    /\ pc = "flush"
    /\ \/ FlushOk
       \/ /\ WriteFailed
          /\ UNCHANGED <<line, request, response, out, flushed, tpc, locals,
                         calls, replies, toolResult>>
    /\ UNCHANGED <<config, io, kinds>>

\* main: exit(1) when run_stdio returns an error, a normal exit otherwise;
\* a panic ends the process with Rust's panic exit code.
PanicExitCode == 101
main_exit_code == IF ret = "Err" THEN 1 ELSE IF ret = "Panic" THEN PanicExitCode ELSE 0

Next ==
    \/ ReadLine
    \/ QuoteReply
    \/ SwapBuildReply
    \/ SwapSendReply
    \/ SwapConfirmReply
    \/ BalanceNativeReply
    \/ TokenAccountsReply
    \/ TokenAccountReply
    \/ MintReply
    \/ WriteJson
    \/ WriteNewline
    \/ Flush

Spec == Init /\ [][Next]_vars

(***************************************************************************)
(* utils.rs: format_sol and format_token_amount called on their own.  The  *)
(* arguments of the call are in locals, what the call produced is in       *)
(* toolResult; the server's other variables stay as they start.            *)
(***************************************************************************)
\* a u64 written with its decimal digits, most significant first
U64(digits) == BNorm([i \in 1..Len(digits) |-> digits[Len(digits) + 1 - i]])
U64Max == BSub(U64Limit, <<1>>)

MaxPow == 63
MaxSolPow == 30
\* lamports: the amounts of test_format_sol, the powers of two, and one
\* lamport more than 2^k SOL
LamportInputs ==
    {FromNat(n) : n \in {0, 1, 500000000, 1000000000}}
    \cup {TwoPow(k) : k \in 0..MaxPow}
    \cup {BInc(BShiftLeft(FromNat(LamportsPerSol), k)) : k \in 0..MaxSolPow}
    \cup {U64Max}

\* token amounts and the decimals a mint can declare (a u8)
MaxDecimals == 255
TokenAmountInputs ==
    {FromNat(n) : n \in {0, 1, 500000, 1000000}}
    \cup {BInc(TwoPow(F64Precision)), U64Max}
DecimalsInputs == {0, 1, 6, 9, 19, 20, 63, 64, MaxDecimals}

FormatCalls ==
    {[tool |-> "format_sol", lamports |-> n] : n \in LamportInputs}
    \cup {[tool |-> "format_token_amount", amount |-> a, decimals |-> d] :
            a \in TokenAmountInputs, d \in DecimalsInputs}

FormatInit ==
    /\ config = [network |-> "MainnetBeta", private_key |-> "key_ok"]
    /\ pc = "call"
    /\ ret = "running"
    /\ io = "none"
    /\ line = None
    /\ kinds = <<>>
    /\ request = None
    /\ response = None
    /\ out = <<>>
    /\ flushed = 0
    /\ tpc = "idle"
    /\ locals \in FormatCalls
    /\ calls = <<>>
    /\ replies = <<>>
    /\ toolResult = None

FormatFrame == <<config, ret, io, line, kinds, request, response, out, flushed,
                 tpc, locals, calls, replies>>
Returned(text) == [panic |-> FALSE, text |-> text]
Panicked == [panic |-> TRUE, text |-> <<>>]

CallFormatSol ==
    /\ pc = "call" /\ locals.tool = "format_sol"
    /\ toolResult' = Some(Returned(format_sol(locals.lamports)))
    /\ pc' = "returned"
    /\ UNCHANGED FormatFrame

\* the build's overflow checks are on (dev profile) or off (release profile)
CallFormatTokenAmount ==
    /\ pc = "call" /\ locals.tool = "format_token_amount"
    /\ \E overflow_checks \in BOOLEAN :
          toolResult' =
              IF format_token_amount_panics(locals.decimals, overflow_checks)
              THEN Some(Panicked)
              ELSE Some(Returned(format_token_amount(locals.amount, locals.decimals)))
    /\ pc' = "returned"
    /\ UNCHANGED FormatFrame

FormatNext == CallFormatSol \/ CallFormatTokenAmount

SpecFormat == FormatInit /\ [][FormatNext]_vars

(***************************************************************************)
(* Properties.                                                             *)
(***************************************************************************)
NRead == Len(kinds)
Writing == pc \in {"write_json", "write_nl", "flush"}

\* The chunks line n owns on stdout, and its complete response lines (a
\* JSON document followed at once by its newline).
ChunksOf(n) == {i \in 1..Len(out) : out[i].n = n}
ResponseLines(n) ==
    {i \in 1..Len(out) - 1 :
        out[i] = [n |-> n, part |-> "json"] /\ out[i + 1] = [n |-> n, part |-> "nl"]}

\* C1 as stated: once run_stdio is done with a line (it is back at
\* read_line, or it has returned), a blank line has no response line and
\* every other line has exactly one.
C1_ExactlyOneResponsePerLine ==
    pc \in {"read", "done"} =>
        \A n \in 1..NRead :
            Cardinality(ResponseLines(n)) = IF kinds[n] = "blank" THEN 0 ELSE 1

\* C1, amended: a blank line owns nothing on stdout; a non-blank line has at
\* most one response line, never two; it has exactly one once run_stdio is
\* back at read_line, and it can be left with none (or a part of one) only
\* while it is being handled, when a write to stdout failed and run_stdio
\* returned the error, or when the tool panicked and the process ended.
C1_OneResponseUnlessWriteFails ==
    \A n \in 1..NRead :
        IF kinds[n] = "blank"
        THEN ChunksOf(n) = {}
        ELSE /\ Cardinality(ResponseLines(n)) <= 1
             /\ Cardinality(ChunksOf(n)) <= 2
             /\ (n < NRead \/ pc = "read" \/ (pc = "done" /\ ret = "Ok"))
                    => Cardinality(ResponseLines(n)) = 1
             /\ Cardinality(ResponseLines(n)) = 0
                    => n = NRead /\ (pc \in {"tool", "write_json", "write_nl"}
                                     \/ (pc = "done" /\ ret \in {"Err", "Panic"}))

C1_Witness ==
    /\ pc = "read"
    /\ NRead = 2
    /\ kinds[1] = "blank" /\ ChunksOf(1) = {}
    /\ kinds[2] # "blank" /\ Cardinality(ResponseLines(2)) = 1

\* C2 as stated: every line that is no McpRequest gets exactly one response
\* line and run_stdio continues with the next line (it returns only when
\* the input ends).
C2_ParseErrorAlwaysAnswered ==
    \A n \in 1..NRead :
        (kinds[n] = "bad" /\ (n < NRead \/ pc \in {"read", "done"}))
            => /\ Cardinality(ResponseLines(n)) = 1
               /\ (pc = "done" => io \in {"eof", "err"})

\* C2, amended: for a line that is no McpRequest the response built is the
\* error -32700 with id "unknown", no dispatcher or tool runs and no
\* external call is made; at most one response line is written for it;
\* unless a write or flush of it fails (run_stdio then returns the error)
\* exactly one is written and run_stdio goes on to the next line.
C2_ParseErrorAnsweredUnlessWriteFails ==
    \A n \in 1..NRead :
        kinds[n] = "bad" =>
            /\ Cardinality(ResponseLines(n)) <= 1
            /\ (n < NRead \/ pc = "read" \/ (pc = "done" /\ ret = "Ok"))
                    => Cardinality(ResponseLines(n)) = 1
            /\ n = NRead => pc # "tool"
            /\ (n = NRead /\ (Writing \/ (pc = "done" /\ ret = "Err"))) =>
                    /\ request = None /\ toolResult = None
                    /\ calls = <<>> /\ tpc = "idle"
                    /\ IsSome(response)
                    /\ response[1].id = "unknown"
                    /\ response[1].result = None
                    /\ IsSome(response[1].error)
                    /\ response[1].error[1].code = -32700
            /\ (n = NRead /\ pc = "done" /\ ret = "Ok") => io \in {"eof", "err"}

\* a request after a line that did not parse has its response line
C2_Witness ==
    /\ NRead = 2
    /\ kinds[1] = "bad" /\ Cardinality(ResponseLines(1)) = 1
    /\ kinds[2] = "req" /\ Cardinality(ResponseLines(2)) = 1

\* C3 as stated: the response to a request carries the request's id, and a
\* line whose id can be read gets that id back, not the sentinel.
C3_ReadableIdEchoed ==
    Writing =>
        /\ IsSome(request) => response[1].id = request[1].id
        /\ IdReadable(line[1]) => response[1].id = line[1].id[1].s

\* C3, amended: the response to a line that parses as an McpRequest carries
\* the request's id, whatever the method and the outcome; the response to
\* every line that does not parse as an McpRequest carries the sentinel id
\* "unknown", also when the id of that line is readable.
C3_IdEchoedOrSentinel ==
    Writing =>
        IF kinds[NRead] = "req"
        THEN /\ IsSome(request)
             /\ request[1].id = line[1].id[1].s
             /\ response[1].id = request[1].id
        ELSE /\ request = None
             /\ response[1].id = "unknown"

\* a line with a readable id (not the sentinel) that is no McpRequest
C3_Witness ==
    /\ Writing
    /\ kinds[NRead] = "bad"
    /\ IdReadable(line[1])
    /\ line[1].id[1].s # "unknown"
    /\ response[1].id = "unknown"

\* Every chunk on stdout continues the response of its line: a newline
\* follows the document of the same line, a document follows the newline of
\* an earlier line.
OutWellFormed ==
    \A i \in 1..Len(out) :
        /\ out[i].part = "nl"
              => i > 1 /\ out[i - 1] = [n |-> out[i].n, part |-> "json"]
        /\ (out[i].part \in {"json", "partial"} /\ i > 1)
              => out[i - 1].part = "nl" /\ out[i - 1].n < out[i].n

\* C4: run_stdio is at read_line only when everything written has been
\* flushed and every earlier non-blank line has its complete response line;
\* while line n is handled the responses of the lines before it are written
\* and flushed; a tool runs only inside the handling of the one current
\* request; the bytes of two responses are never interleaved.
C4_StrictlySequential ==
    /\ OutWellFormed
    /\ flushed <= Len(out)
    /\ pc = "read" =>
          /\ flushed = Len(out)
          /\ tpc = "idle" /\ calls = <<>>
          /\ \A n \in 1..NRead :
                kinds[n] # "blank" => Cardinality(ResponseLines(n)) = 1
    /\ pc \in {"tool", "write_json", "write_nl", "flush"} =>
          /\ \A n \in 1..(NRead - 1) :
                kinds[n] # "blank" =>
                    \E i \in ResponseLines(n) : i + 1 <= flushed
          /\ \A i \in 1..Len(out) : out[i].n = NRead => i > flushed
    /\ tpc # "idle" => (pc = "tool" /\ kinds[NRead] = "req" /\ ChunksOf(NRead) = {})

\* the second request's tool is running after the first response was flushed
C4_Witness ==
    /\ pc = "tool"
    /\ NRead = 2
    /\ kinds[1] = "req"
    /\ flushed = 2 /\ Len(out) = 2

\* C5: a failed read of stdin ends the loop and run_stdio returns an error.
C5_ReadFailureSurfaced ==
    io = "err" => (pc = "done" /\ ret = "Err" /\ main_exit_code = 1)

\* C6: at end-of-stream run_stdio returns Ok; the step that meets the end
\* of the stream writes nothing, and after it no line is read and nothing
\* is written.
C6_EofEndsCleanly ==
    /\ [](io = "eof" => (pc = "done" /\ ret = "Ok"))
    /\ [][io' = "eof" => (out' = out /\ flushed' = flushed /\ kinds' = kinds)]_vars

\* the stream ended after a request was answered
C6_Witness ==
    /\ io = "eof"
    /\ NRead > 0 /\ kinds[NRead] = "req"
    /\ Cardinality(ResponseLines(NRead)) = 1

ToolFailed == IsSome(toolResult) /\ ~toolResult[1].ok

\* C7 as stated: when handle_tools_call returns an error, of whatever kind,
\* the response is the error -32603 with the error's text as message and
\* the request's id, and run_stdio goes on to write it; the loop then
\* reads the next line unless a write or flush fails; the loop ends only
\* when the input ended or failed or an output write failed.  The last
\* part fails: a panic of format_token_amount in get_token_balance ends it.
C7_ToolErrorsBecomeResponses ==
    /\ [](/\ \A k \in ErrorKinds :
               LET e == JupiterMcpError(k, <<"text">>)
                   r == ToolsCallResponse(McpRequest("2.0", "9", "tools/call", None), Err(e))
               IN /\ r.result = None
                  /\ r.error[1].code = -32603
                  /\ r.error[1].message = <<DisplayPrefix(k), "text">>
          /\ ToolFailed =>
               /\ pc \in {"write_json", "write_nl", "flush", "done"}
               /\ response[1].id = request[1].id
               /\ response[1].result = None
               /\ response[1].error[1].code = -32603
               /\ response[1].error[1].message
                     = <<DisplayPrefix(toolResult[1].e.kind)>> \o toolResult[1].e.detail
               /\ (pc = "done" => ret = "Err")
          /\ pc = "done" => (io \in {"eof", "err"} \/ ret = "Err"))
    /\ [][(ToolFailed /\ pc = "flush" /\ ret' = "running") => pc' = "read"]_vars

\* a chain-RPC failure of a tool has been answered and flushing is next
C7_Witness ==
    /\ ToolFailed
    /\ toolResult[1].e.kind = "SolanaClient"
    /\ pc = "flush"

IsSwap == Len(calls) > 0 /\ calls[1].op = "aggregator_post_swap"
Submitted == \E i \in 1..Len(calls) : calls[i].op = "send_transaction"

\* C8: every transaction submitted with send_transaction has been signed
\* with the configured wallet key.
C8_SubmittedTransactionSigned ==
    \A i \in 1..Len(calls) :
        calls[i].op = "send_transaction" => calls[i].transaction.signed_by_wallet

\* C9: execute_swap returns its success result only when confirm_transaction
\* reported the transaction as confirmed.
C9_SuccessOnlyWhenConfirmed ==
    (IsSwap /\ IsSome(toolResult) /\ toolResult[1].ok) =>
        /\ calls[Len(calls)].op = "confirm_transaction"
        /\ replies[Len(replies)].kind = "ok"
        /\ replies[Len(replies)].confirmed

\* C10: send_transaction and confirm_transaction are called only after the
\* build step returned a 2xx whose payload decoded into a transaction; a
\* non-2xx build reply makes the call fail with a JupiterApi error, a
\* payload that is not base64 or no transaction with a SolanaSdk error,
\* and neither send_transaction nor confirm_transaction is called.
C10_NoSubmissionWithoutBuiltTransaction ==
    (IsSwap /\ Len(replies) >= 1) =>
        LET built == replies[1] IN
        /\ (\E i \in 1..Len(calls) :
                calls[i].op \in {"send_transaction", "confirm_transaction"})
              => (built.kind = "ok" /\ built.payload = "transaction"
                  /\ calls[2].op = "send_transaction"
                  /\ calls[2].transaction.message = built.message)
        /\ built.kind = "status" =>
              /\ Len(calls) = 1
              /\ toolResult = Some(Err(JupiterMcpError("JupiterApi",
                      <<"Jupiter swap API error ", built.status, ": ", built.text>>)))
        /\ (built.kind = "ok" /\ built.payload \in {"not_base64", "not_a_transaction"}) =>
              /\ Len(calls) = 1
              /\ ToolFailed
              /\ toolResult[1].e.kind = "SolanaSdk"

\* the build step answered 500 and the call failed without a submission
C10_Witness ==
    /\ IsSwap
    /\ Len(replies) = 1 /\ replies[1].kind = "status"
    /\ ToolFailed /\ toolResult[1].e.kind = "JupiterApi"
    /\ ~Submitted

(***************************************************************************)
(* The tools/call being handled: its tool name and its arguments.          *)
(***************************************************************************)
IsToolsCall ==
    /\ IsSome(request)
    /\ request[1].method = "tools/call"
    /\ IsSome(request[1].params)
    /\ request[1].params[1].t = "obj"
    /\ IsJStr(request[1].params[1].name)
CallName == request[1].params[1].name[1].s
CallArgs == UnwrapOr(request[1].params[1].arguments, EmptyArgs)
IsCallOf(tool) == IsToolsCall /\ CallName = tool /\ CallArgs.t = "obj"
ToolSucceeded == IsSome(toolResult) /\ toolResult[1].ok
InvalidInputReported == ToolFailed /\ toolResult[1].e.kind = "InvalidInput"

\* C11: the quoteResponse in the body of the swap-build request is the
\* quoteResponse object of the call's arguments, member for member.
C11_QuoteRoundTrippedVerbatim ==
    \A i \in 1..Len(calls) :
        calls[i].op = "aggregator_post_swap"
            => calls[i].body.quoteResponse = CallArgs.quoteResponse[1]

\* The explorer URL in the text of a successful execute_swap result.
ExplorerUrlOf(result) ==
    LET text == result.v.content[1].text IN SubSeq(text, 5, Len(text))
Contains(pieces, piece) == \E i \in 1..Len(pieces) : pieces[i] = piece

\* C12: on every network the explorer URL of a successful swap contains the
\* signature send_transaction returned, and on Testnet and Devnet also the
\* matching cluster parameter.
C12_ExplorerUrlNamesTransaction ==
    (IsSwap /\ ToolSucceeded) =>
        LET url == ExplorerUrlOf(toolResult[1]) IN
        /\ Contains(url, replies[2].signature)
        /\ config.network = "Testnet" => Contains(url, "testnet")
        /\ config.network = "Devnet" => Contains(url, "devnet")

\* A string of decimal digits: a non-negative integer.
IsNonNegativeInteger(s) == Len(s) > 0 /\ \A i \in 1..Len(s) : IsDigit(s[i])
IsValidAddress(o) == IsJStr(o) /\ o[1].s \in ValidAddrs

\* C13: a get_quote call whose inputMint, outputMint or taker is no valid
\* address, or whose amount is no non-negative integer, fails with an
\* InvalidInput error and makes no external call; the aggregator is asked
\* only when all four are valid.
C13_QuoteValidatedBeforeNetwork ==
    IsCallOf("get_quote") =>
        LET a == CallArgs
            rejected == \/ ~IsValidAddress(a.inputMint)
                        \/ ~IsValidAddress(a.outputMint)
                        \/ ~IsValidAddress(a.taker)
                        \/ ~(IsJStr(a.amount) /\ IsNonNegativeInteger(a.amount[1].s))
        IN /\ rejected => (InvalidInputReported /\ calls = <<>> /\ tpc = "idle")
           /\ calls # <<>> =>
                 /\ ~rejected
                 /\ Len(calls) = 1 /\ calls[1].op = "aggregator_get_order"

\* a negative amount with three valid addresses is rejected with no call
C13_Witness ==
    /\ IsCallOf("get_quote")
    /\ IsValidAddress(CallArgs.inputMint) /\ IsValidAddress(CallArgs.outputMint)
    /\ IsValidAddress(CallArgs.taker)
    /\ CallArgs.amount = Some(JStr(<<"-", "1", "0", "0">>))
    /\ InvalidInputReported /\ calls = <<>>

\* The address-typed arguments of each tool.
AddressArgs(tool, a) ==
    CASE tool = "get_quote" -> {a.inputMint, a.outputMint, a.taker}
      [] tool = "get_token_balance" -> {a.walletAddress, a.tokenMint}
      [] tool = "execute_swap" -> {a.userPublicKey}
      [] OTHER -> {}

\* C14: a call of any tool that gives an address-typed argument a string
\* that is no valid address fails with an InvalidInput error and makes no
\* external call (so the value is forwarded nowhere).
C14_InvalidAddressNeverForwarded ==
    (IsToolsCall /\ CallArgs.t = "obj") =>
        ((\E o \in AddressArgs(CallName, CallArgs) : IsJStr(o) /\ o[1].s \notin ValidAddrs)
            => (InvalidInputReported /\ calls = <<>>))

\* The text of a successful tool result.
ResultText == toolResult[1].v.content[1].text
OpsCalled == {calls[i].op : i \in 1..Len(calls)}

\* C15: a get_token_balance call with a valid wallet and a valid mint, to
\* which the chain reports no token account, ends in the successful
\* zero-balance result, and get_token_accounts_by_owner is the only query
\* issued: no get_account_data for a token account or for the mint.
C15_NoTokenAccountIsZeroBalance ==
    (/\ IsCallOf("get_token_balance")
     /\ IsValidAddress(CallArgs.walletAddress)
     /\ IsValidAddress(CallArgs.tokenMint)
     /\ Len(replies) >= 1
     /\ replies[1].kind = "ok"
     /\ replies[1].accounts = <<>>)
        => /\ ToolSucceeded
           /\ ResultText = <<"Token account not found - Balance: 0">>
           /\ IsSome(response) /\ response[1].error = None
           /\ OpsCalled = {"get_token_accounts_by_owner"}
           /\ Len(calls) = 1

C15_Witness ==
    /\ IsCallOf("get_token_balance")
    /\ IsValidAddress(CallArgs.walletAddress)
    /\ IsValidAddress(CallArgs.tokenMint)
    /\ Len(replies) = 1 /\ replies[1].kind = "ok" /\ replies[1].accounts = <<>>
    /\ ToolSucceeded

\* C16: a get_token_balance call with a valid wallet and no mint issues
\* exactly one get_balance query and nothing else, and when that query
\* succeeds the result text begins with "SOL Balance:"; with an invalid
\* wallet address no chain query is issued at all.
C16_NativeBalanceSingleQuery ==
    IsCallOf("get_token_balance") =>
        /\ (IsValidAddress(CallArgs.walletAddress) /\ CallArgs.tokenMint = None) =>
              /\ calls = <<[op |-> "get_balance", pubkey |-> CallArgs.walletAddress[1].s]>>
              /\ (Len(replies) >= 1 /\ replies[1].kind = "ok") =>
                    (ToolSucceeded /\ ResultText[1] = "SOL Balance: ")
        /\ ~IsValidAddress(CallArgs.walletAddress) => (calls = <<>> /\ ToolFailed)

C16_Witness ==
    /\ IsCallOf("get_token_balance")
    /\ IsValidAddress(CallArgs.walletAddress) /\ CallArgs.tokenMint = None
    /\ Len(replies) = 1 /\ replies[1].kind = "ok"
    /\ ToolSucceeded /\ ResultText[1] = "SOL Balance: "

ToolNames == {"get_quote", "execute_swap", "get_token_balance"}
IsRequest(method) == IsSome(request) /\ request[1].method = method
NoToolRan == toolResult = None /\ calls = <<>> /\ tpc = "idle" /\ locals = NoLocals
ErrorCodeIs(code) ==
    /\ IsSome(response) /\ response[1].result = None
    /\ IsSome(response[1].error) /\ response[1].error[1].code = code

\* C17: every tools/list request, whatever its params and whatever was
\* handled before it, is answered with a success whose tool list holds
\* exactly 3 definitions named get_quote, execute_swap and get_token_balance.
C17_ToolsListAlwaysThree ==
    IsRequest("tools/list") =>
        /\ IsSome(response) /\ response[1].error = None /\ IsSome(response[1].result)
        /\ LET tools == response[1].result[1].tools IN
              /\ Len(tools) = 3
              /\ {tools[i].name : i \in 1..Len(tools)} = ToolNames

\* a tools/list with params, handled after an earlier tools/call
C17_Witness ==
    /\ IsRequest("tools/list") /\ IsSome(request[1].params)
    /\ kinds = <<"req", "req">>
    /\ IsSome(response) /\ IsSome(response[1].result)

\* C18: a tools/call request without params is answered with error code
\* -32602, and no tool runs and no external call is made.
C18_MissingParamsRejected ==
    (IsRequest("tools/call") /\ request[1].params = None) =>
        (ErrorCodeIs(-32602) /\ NoToolRan)

C18_Witness ==
    /\ IsRequest("tools/call") /\ request[1].params = None
    /\ pc = "write_json" /\ ErrorCodeIs(-32602)

\* The external calls each tool makes.
OpsOf(tool) ==
    CASE tool = "get_quote" -> {"aggregator_get_order"}
      [] tool = "execute_swap" ->
            {"aggregator_post_swap", "send_transaction", "confirm_transaction"}
      [] tool = "get_token_balance" ->
            {"get_balance", "get_token_accounts_by_owner", "get_account_data"}

\* C19: a tools/call naming an unknown tool is answered with error code
\* -32603 and an "Invalid input: Unknown tool: <name>" message, and no tool
\* runs; a call naming one of the three tools runs that tool and no other.
C19_DispatchByName ==
    IsToolsCall =>
        IF CallName \notin ToolNames
        THEN /\ InvalidInputReported
             /\ ErrorCodeIs(-32603)
             /\ response[1].error[1].message = <<"Invalid input: ", "Unknown tool: ", CallName>>
             /\ calls = <<>> /\ tpc = "idle" /\ locals = NoLocals
        ELSE /\ pc = "tool" => locals.tool = CallName
             /\ (pc # "tool" /\ ret # "Panic") => IsSome(toolResult)
             /\ OpsCalled \subseteq OpsOf(CallName)

C19_Witness ==
    /\ IsToolsCall /\ CallName = "transfer"
    /\ ErrorCodeIs(-32603) /\ InvalidInputReported

\* a recognised name at work on its own external call
C19_DispatchWitness ==
    /\ IsToolsCall /\ CallName = "get_quote"
    /\ pc = "tool" /\ locals.tool = "get_quote"

\* C20: a request whose method is none of initialize, tools/list and
\* tools/call is answered with error code -32601 and no tool runs;
\* initialize is answered with the static announcement whatever its params.
C20_UnknownMethodAndInitialize ==
    IsSome(request) =>
        /\ request[1].method \notin {"initialize", "tools/list", "tools/call"} =>
              (ErrorCodeIs(-32601) /\ NoToolRan)
        /\ request[1].method = "initialize" =>
              /\ IsSome(response) /\ response[1].error = None
              /\ response[1].id = request[1].id
              /\ response[1].result =
                    Some([protocolVersion |-> "2024-11-05", capabilities |-> "tools",
                          serverInfo |-> [name |-> "jupiter-ag-mcp", version |-> "1.0.0"]])

C20_Witness ==
    /\ IsRequest("ping") /\ ErrorCodeIs(-32601) /\ pc = "write_json"

\* initialize without params and with params both succeed
C20_InitializeWitness ==
    /\ IsRequest("initialize") /\ request[1].params = None
    /\ IsSome(response) /\ IsSome(response[1].result)

\* C21: in the swap-build request the signer address is the call's
\* userPublicKey when it gives one and the configured wallet's address
\* otherwise, and the wrap/unwrap flag is the call's wrapAndUnwrapSol when
\* given and true otherwise.
C21_SwapBodyDefaults ==
    \A i \in 1..Len(calls) :
        calls[i].op = "aggregator_post_swap" =>
            /\ calls[i].body.userPublicKey =
                  (IF CallArgs.userPublicKey = None THEN "Wa11etPubkey"
                   ELSE CallArgs.userPublicKey[1].s)
            /\ calls[i].body.wrapAndUnwrapSol =
                  (IF CallArgs.wrapAndUnwrapSol = None THEN TRUE
                   ELSE CallArgs.wrapAndUnwrapSol[1].b)

\* an explicit signer and an explicit "do not wrap" reach the aggregator
C21_Witness ==
    /\ IsSwap /\ Len(calls) >= 1
    /\ CallArgs.userPublicKey # None /\ CallArgs.wrapAndUnwrapSol = Some(JBool(FALSE))
    /\ calls[1].body.userPublicKey = CallArgs.userPublicKey[1].s
    /\ calls[1].body.wrapAndUnwrapSol = FALSE

\* both omitted: the wallet's address and wrap = true
C21_DefaultsWitness ==
    /\ IsSwap /\ Len(calls) >= 1
    /\ CallArgs.userPublicKey = None /\ CallArgs.wrapAndUnwrapSol = None
    /\ calls[1].body.userPublicKey = "Wa11etPubkey"
    /\ calls[1].body.wrapAndUnwrapSol = TRUE

\* C22: in the aggregator quote query slippageBps is "50" when the call
\* omits it and swapMode is "ExactIn" when the call omits it; a given value
\* is sent unchanged; inputMint, outputMint, amount and taker are sent
\* exactly as the call supplied them.
C22_QuoteQueryDefaults ==
    \A i \in 1..Len(calls) :
        calls[i].op = "aggregator_get_order" =>
            LET p == calls[i].params
                a == CallArgs IN
            /\ p.slippageBps = (IF a.slippageBps = None THEN <<"5", "0">>
                                ELSE NatToString(a.slippageBps[1].n))
            /\ p.swapMode = (IF a.swapMode = None THEN "ExactIn" ELSE a.swapMode[1].s)
            /\ p.inputMint = a.inputMint[1].s
            /\ p.outputMint = a.outputMint[1].s
            /\ p.amount = a.amount[1].s
            /\ p.taker = a.taker[1].s

\* a given slippage of 100 and a given ExactOut are sent as given
C22_Witness ==
    /\ IsCallOf("get_quote") /\ Len(calls) = 1
    /\ CallArgs.slippageBps = Some(JNum(100))
    /\ CallArgs.swapMode = Some(JStr("ExactOut"))
    /\ calls[1].params.slippageBps = <<"1", "0", "0">>
    /\ calls[1].params.swapMode = "ExactOut"

\* both omitted: 50 and ExactIn are sent
C22_DefaultsWitness ==
    /\ IsCallOf("get_quote") /\ Len(calls) = 1
    /\ CallArgs.slippageBps = None /\ CallArgs.swapMode = None
    /\ calls[1].params.slippageBps = <<"5", "0">>
    /\ calls[1].params.swapMode = "ExactIn"

\* amount / 10^d written exactly: the integer part, and for d > 0 a point
\* and the d digits of the remainder
ExactFixed(n, d) ==
    LET len == IF Len(n) > d THEN Len(n) ELSE d + 1
        int == [j \in 1..(len - d) |-> DigitChars[BDigit(n, len + 1 - j) + 1]]
        frac == [j \in 1..d |-> DigitChars[BDigit(n, d + 1 - j) + 1]]
    IN IF d = 0 THEN int ELSE int \o <<".">> \o frac
FormatReturned(tool) == pc = "returned" /\ locals.tool = tool

\* C23: for every u64 amount and every d in 0..255, format_token_amount
\* returns (it does not overflow computing 10^d) and what it returns is
\* amount / 10^d written with exactly d fractional digits.
C23_TokenAmountExactForAllDecimals ==
    FormatReturned("format_token_amount") =>
        /\ ~toolResult[1].panic
        /\ toolResult[1].text = ExactFixed(locals.amount, locals.decimals)

\* C24: for every u64 n, format_sol(n) is n div 10^9, a point, and
\* n mod 10^9 zero-padded to 9 digits.
C24_FormatSolExactForAllAmounts ==
    FormatReturned("format_sol") =>
        toolResult[1].text = ExactFixed(locals.lamports, 9)

CallsOf(op) == {i \in 1..Len(calls) : calls[i].op = op}
\* the reply to the i-th external call has arrived
Answered(i) == i <= Len(replies)

\* C25: in a swap execution send_transaction is called at most once, with
\* skip_preflight false; confirm_transaction is called only after
\* send_transaction returned a signature, and for that signature; when
\* send_transaction is rejected the call fails with an error whose message
\* carries the gateway's text and confirm_transaction is never called.
C25_SubmitOnceThenConfirm ==
    IsSwap =>
        /\ Cardinality(CallsOf("send_transaction")) <= 1
        /\ \A i \in CallsOf("send_transaction") : calls[i].config.skip_preflight = FALSE
        /\ \A i \in CallsOf("confirm_transaction") :
              /\ i > 1 /\ calls[i - 1].op = "send_transaction"
              /\ Answered(i - 1) /\ replies[i - 1].kind = "ok"
              /\ calls[i].signature = replies[i - 1].signature
        /\ \A i \in CallsOf("send_transaction") :
              (Answered(i) /\ replies[i].kind = "rpc_error") =>
                  /\ ToolFailed
                  /\ Contains(to_string(toolResult[1].e), replies[i].text)
                  /\ ErrorCodeIs(-32603)
                  /\ Contains(response[1].error[1].message, replies[i].text)
                  /\ CallsOf("confirm_transaction") = {}

\* the gateway rejected the submission
C25_Witness ==
    /\ IsSwap /\ Len(calls) = 2 /\ Len(replies) = 2
    /\ replies[2].kind = "rpc_error"
    /\ ToolFailed /\ CallsOf("confirm_transaction") = {}

\* the submission returned Sig2 and Sig2 is confirmed
C25_ConfirmWitness ==
    /\ IsSwap /\ Len(calls) = 3
    /\ replies[2].kind = "ok" /\ replies[2].signature = "Sig2"
    /\ calls[3].op = "confirm_transaction" /\ calls[3].signature = "Sig2"

\* C26: every response has exactly one of result and error and the version
\* tag "2.0", whatever version tag the request carried.
C26_ResultXorErrorVersion2 ==
    IsSome(response) =>
        /\ response[1].jsonrpc = "2.0"
        /\ (response[1].result = None) # (response[1].error = None)

\* the second line read carries version "1.0" and its answer is being written
C26_Witness ==
    /\ Len(kinds) = 2
    /\ IsSome(request) /\ request[1].jsonrpc = "1.0"
    /\ pc = "write_nl"
    /\ IsSome(response) /\ response[1].jsonrpc = "2.0"

(***************************************************************************)
(* What handling one line comes to, as a function of the configuration,    *)
(* the line and the replies received so far, and of nothing else.          *)
(***************************************************************************)
\* the tool's next step after the reply to the call it awaits at `at`
Continue(at, reply, loc, cfg) ==
    CASE at = "quote_get" -> Done(GetQuoteFinish(reply))
      [] at = "swap_post" -> ExecuteSwapBuilt(reply, loc)
      [] at = "swap_send" -> ExecuteSwapSent(reply, loc)
      [] at = "swap_confirm" -> ExecuteSwapFinish(reply, loc, cfg)
      [] at = "bal_native" -> GetBalanceNativeFinish(reply)
      [] at = "bal_accounts" -> GetTokenBalanceAccounts(reply, loc)
      [] at = "bal_token_account" -> GetTokenBalanceAccount(reply, loc)
      [] at = "bal_mint" -> GetTokenBalanceMint(reply, loc)

\* the tool's steps from `step` on, fed the replies reps[k..]; a build with
\* overflow checks stops at the panic
RECURSIVE RunTool(_, _, _, _, _, _)
RunTool(cfg, step, made, reps, k, overflow_checks) ==
    LET now == IF step.done THEN made ELSE Append(made, step.call) IN
    IF step.done \/ k > Len(reps)
    THEN [step |-> step, calls |-> now, panicked |-> FALSE]
    ELSE IF step.tpc = "bal_mint" /\ GetTokenBalanceMintPanics(reps[k], overflow_checks)
    THEN [step |-> step, calls |-> now, panicked |-> TRUE]
    ELSE RunTool(cfg, Continue(step.tpc, reps[k], step.locals, cfg), now, reps, k + 1,
                 overflow_checks)

Outcome(req, resp, result, at, loc, made, panicked) ==
    [request |-> req, response |-> resp, toolResult |-> result, tpc |-> at,
     locals |-> loc, calls |-> made, panicked |-> panicked]
NothingKept == Outcome(None, None, None, "idle", NoLocals, <<>>, FALSE)

HandlingOf(cfg, l, reps, overflow_checks) ==
    IF ~ParseRequest(l).ok
    THEN Outcome(None, Some(ParseErrorResponse), None, "idle", NoLocals, <<>>, FALSE)
    ELSE LET req == ParseRequest(l).v IN
    IF req.method = "tools/call" /\ IsSome(req.params)
    THEN LET run == RunTool(cfg, handle_tools_call(cfg, req.params[1]), <<>>, reps, 1,
                            overflow_checks)
         IN IF run.step.done
            THEN Outcome(Some(req), Some(ToolsCallResponse(req, run.step.result)),
                         Some(run.step.result), "idle", NoLocals, run.calls, FALSE)
            ELSE IF run.panicked
            THEN Outcome(Some(req), None, None, "idle", NoLocals, run.calls, TRUE)
            ELSE Outcome(Some(req), None, None, run.step.tpc, run.step.locals, run.calls,
                         FALSE)
    ELSE Outcome(Some(req), Some(handle_request(req)), None, "idle", NoLocals, <<>>, FALSE)

\* The state of the request in hand is what the build, the configuration,
\* the line and the replies to it determine; the process has panicked
\* exactly when the build has overflow checks and they fail.  It is
\* compared where it is decided: at read_line, while the tool runs, when
\* the response has just been built, and at a panic.
Deciding == pc \in {"read", "tool", "write_json"} \/ ret = "Panic"
Stateless ==
    /\ Deciding =>
          Outcome(request, response, toolResult, tpc, locals, calls, ret = "Panic") =
             (IF line = None THEN NothingKept
              ELSE HandlingOf(config, line[1], replies, ret = "Panic"))
    /\ line = None => replies = <<>>

\* writing the response changes nothing of what was decided
KeptWhileWritten ==
    (pc \in {"write_json", "write_nl", "flush"} /\ pc' # "read") =>
        UNCHANGED <<line, request, response, toolResult, tpc, locals, calls, replies>>

\* C27: whatever was handled before, the request in hand, its response, and
\* the tool's position, locals and calls are what the configuration, the
\* current line and the replies received for it determine, and stay so
\* while the response is written; between lines nothing of the last
\* request is kept; and no step changes the configuration.
C27_RequestHandlingStateless ==
    []Stateless /\ [][KeptWhileWritten]_vars /\ [][config' = config]_vars

\* a tool call answered as the second request, after a first request
C27_Witness ==
    /\ kinds = <<"req", "req">>
    /\ IsToolsCall /\ ToolSucceeded /\ Len(replies) >= 1
    /\ IsSome(response)

(***************************************************************************)
(* Progress.  run_stdio is one task: once an external call has returned    *)
(* the runtime resumes the tool, and a write that can complete does.       *)
(* Nothing is assumed of the input: read_line may wait for ever.           *)
(***************************************************************************)
ExternalCallsReturn ==
    /\ WF_vars(QuoteReply)
    /\ WF_vars(SwapBuildReply)
    /\ WF_vars(SwapSendReply)
    /\ WF_vars(SwapConfirmReply)
    /\ WF_vars(BalanceNativeReply)
    /\ WF_vars(TokenAccountsReply)
    /\ WF_vars(TokenAccountReply)
    /\ WF_vars(MintReply)

WritesComplete ==
    /\ WF_vars(WriteJson)
    /\ WF_vars(WriteNewline)
    /\ WF_vars(Flush)

SpecLive == Init /\ [][Next]_vars /\ ExternalCallsReturn /\ WritesComplete

\* the line in hand is non-empty and its handling has begun
InHand == IsSome(line)
\* the line in hand has its response line on stdout
InHandAnswered == ResponseLines(NRead) # {}
\* a write to stdout failed: the claim's assumption does not hold
AWriteFailed == pc = "done" /\ ret = "Err"

AnsweredUnlessPanicked ==
    InHand ~> (InHandAnswered \/ AWriteFailed \/ ret = "Panic")

\* get_token_balance panicked with the line in hand unanswered
C28_PanicWitness ==
    /\ ret = "Panic" /\ pc = "done"
    /\ InHand /\ ~InHandAnswered
    /\ io = "line"

====
